---------------------------- MODULE Spec2Model ----------------------------
(***************************************************************************)
(* AnyAnimal: a fixed-size, heap-free type-erased holder (src/main.cpp).   *)
(*                                                                         *)
(* The program state is a set of memory locations, each of which may hold  *)
(* an AnyAnimal object (its vptr member and the objects living in its      *)
(* storage_ buffer), the text written to std::cout, and, for main(), the   *)
(* animal_roster vector.                                                   *)
(***************************************************************************)
EXTENDS Integers, Sequences, FiniteSets, TLC

VARIABLES
    build,          \* how the translation unit was built (NDEBUG, instantiated T)
    status,         \* "running", "aborted", "crashed", "returned", "ill-formed"
    alive,          \* alive[p]: an AnyAnimal object exists at location p
    vptr,           \* vptr[p]: the vptr member (a type name, or NULL)
    storage_,       \* storage_[p]: the objects living in the buffer at p
    out,            \* tokens written to std::cout
    trace,          \* table calls and object events of the last operation
    lastOp,         \* the last operation executed
    animal_roster,  \* main's vector: the locations of its elements, in order
    capacity,       \* the vector's capacity
    iter,           \* main's range-for: index of the next element to visit
    input           \* the values main appends, in order

vars == <<build, status, alive, vptr, storage_, out, trace, lastOp,
          animal_roster, capacity, iter, input>>

-----------------------------------------------------------------------------
main_vars == <<animal_roster, capacity, iter, input>>

-----------------------------------------------------------------------------
(* Bounds *)

\* locations available to the free-running container operations
NSlots == 2
\* print_food_requirements calls in one run of Spec
MaxOut == 1
\* number of elements main appends in SpecRoster
MaxRoster == 3

Slots == 1 .. NSlots
RosterSlots == 1 .. (2 * MaxRoster)
Locs == Slots \cup RosterSlots

-----------------------------------------------------------------------------
(* Types and values *)

BUFFER_SIZE == 128
ALIGNMENT == 16

NULL == "nullptr"
NoType == "none"
\* contents of a std::string that has been moved from (destroyed right after)
MovedFrom == "<moved-from>"
\* what a read of storage holding no object of the expected type yields
Garbage == "<garbage>"

\* The derived classes of the animal hierarchy, and two further types T a
\* caller may try to instantiate the constructor template with: one that is
\* a byte too large for the buffer, one that is over-aligned.
AnimalTypes == {"Lion", "Zebra", "Elephant", "Penguin"}
BadTypes == {"Whale", "Vec32"}
Types == AnimalTypes \cup BadTypes

\* the types client code draws its values from in Spec
ClientTypes == {"Lion", "Zebra"}

\* sizeof(T) and alignof(T): a vtable pointer and a std::string for the
\* animals (LP64)
SizeOf(T) ==
    CASE T = "Whale" -> BUFFER_SIZE + 1
      [] T = "Vec32" -> 2 * ALIGNMENT
      [] OTHER -> 40

AlignOf(T) ==
    CASE T = "Vec32" -> 2 * ALIGNMENT
      [] OTHER -> 8

\* T's default constructor: the name handed to Animal's constructor
NameOf(T) == T

\* a value of type T, as passed to AnyAnimal(T obj)
Value(T) == [type |-> T, name |-> NameOf(T)]
Values(TS) == {Value(T) : T \in TS}

\* Animal::print_food_requirements
Animal_print(name) == <<name, " needs: ">>

\* T::print_food_requirements applied to an object with the given name
T_print(T, name) ==
    Animal_print(name) \o
    CASE T = "Elephant" -> <<"hay, fruit, vegetables (300kg/day)">>
      [] T = "Zebra" -> <<"hay, grass (15kg/day)">>
      [] T = "Lion" -> <<"meat (11kg/day)">>
      [] T = "Penguin" -> <<"fish (2kg/day)">>
      [] OTHER -> <<"plankton">>

\* calling print_food_requirements directly on a value
Direct(v) == T_print(v.type, v.name)

\* &vtable_for<T>: the table is identified by its type
vtable_for(T) == T

\* the static_asserts without the one on sizeof(T)
StaticAssertOk_NoSize(T) == AlignOf(T) <= ALIGNMENT

\* the two static_asserts of AnyAnimal(T obj)
StaticAssertOk(T) == SizeOf(T) <= BUFFER_SIZE /\ AlignOf(T) <= ALIGNMENT

-----------------------------------------------------------------------------
(* The memory: h = [alive, vptr, storage_, trace] *)

HeapOf(a, v, s) == [alive |-> a, vptr |-> v, storage_ |-> s, trace |-> <<>>]

\* the memory as an operation finds it
Heap == HeapOf(alive, vptr, storage_)

\* An object living in a buffer: its dynamic type and its name_ member,
\* plus bookkeeping that the program does not hold: vid identifies the value
\* across relocations, from is the value the constructor was given, moved
\* tells whether the object was produced by a relocation.
Obj(T, name, vid, from, moved) ==
    [type |-> T, name |-> name, vid |-> vid, from |-> from, moved |-> moved]

\* no value, no object
NoValue == [type |-> NoType, name |-> Garbage]
NoObj == Obj(NoType, Garbage, 0, NoValue, FALSE)

\* value ids carried by the live objects
LiveVids(h) ==
    UNION {{h.storage_[p][i].vid : i \in DOMAIN h.storage_[p]} :
              p \in DOMAIN h.storage_}

FreshVid(h) == CHOOSE n \in 1 .. (Cardinality(LiveVids(h)) + 1) :
                   /\ n \notin LiveVids(h)
                   /\ \A m \in 1 .. (n - 1) : m \in LiveVids(h)

\* the object a pointer to the buffer at p refers to (the last one whose
\* lifetime began there), or NoObj
Top(h, p) ==
    IF h.storage_[p] = <<>> THEN NoObj
    ELSE h.storage_[p][Len(h.storage_[p])]

\* a T* to the buffer at p points to a live T
IsLive(h, T, p) == Top(h, p) # NoObj /\ Top(h, p).type = T

\* an entry of trace: a call through table T ("destroy", "move", "print") or
\* an object event ("new", "dtor") at p, with the object it acts on
Ev(k, T, p, q, o) ==
    [k |-> k, T |-> T, p |-> p, q |-> q, vid |-> o.vid, dyn |-> o.type]

\* new (p) T(...): the lifetime of o begins in the buffer at p
placement_new(h, p, o) ==
    [h EXCEPT !.storage_[p] = Append(@, o),
              !.trace = Append(@, Ev("new", o.type, p, 0, o))]

DropLast(s) == SubSeq(s, 1, Len(s) - 1)

\* std::destroy_at(static_cast<T*>(p)): runs ~T on what is at p
destroy_at(h, T, p) ==
    IF Top(h, p) = NoObj
    THEN [h EXCEPT !.trace = Append(@, Ev("dtor", T, p, 0, NoObj))]
    ELSE [h EXCEPT !.storage_[p] = DropLast(@),
                   !.trace = Append(@, Ev("dtor", T, p, 0, Top(h, p)))]

\* vtable_for<T>.destroy
VT_destroy(h, T, p) ==
    destroy_at([h EXCEPT !.trace =
                   Append(@, Ev("destroy", T, p, 0, Top(h, p)))], T, p)

\* T(std::move(*src_ptr)): the object move-constructed from what src_ptr
\* points to
MovedCopy(h, T, src) ==
    IF IsLive(h, T, src)
    THEN [Top(h, src) EXCEPT !.moved = TRUE]
    ELSE Obj(T, Garbage, FreshVid(h), NoValue, TRUE)

\* what *src_ptr is left as by the move: its name_ has been moved from
Hollow(h, T, src) ==
    IF IsLive(h, T, src)
    THEN [h EXCEPT !.storage_[src][Len(h.storage_[src])].name = MovedFrom]
    ELSE h

\* vtable_for<T>.move destroying *src before it move-constructs from it
VT_move_DestroyFirst(h, T, src, dst) ==
    LET h1 == [h EXCEPT !.trace =
                  Append(@, Ev("move", T, src, dst, Top(h, src)))]
        h2 == destroy_at(h1, T, src)
    IN placement_new(h2, dst, MovedCopy(h2, T, src))

\* vtable_for<T>.move copy-constructing at dst and leaving *src alive
VT_move_Copy(h, T, src, dst) ==
    LET h1 == [h EXCEPT !.trace =
                  Append(@, Ev("move", T, src, dst, Top(h, src)))]
    IN placement_new(h1, dst, MovedCopy(h, T, src))

\* vtable_for<T>.move: move-construct at dst from *src, then destroy *src
VT_move(h, T, src, dst) ==
    LET h1 == [h EXCEPT !.trace =
                  Append(@, Ev("move", T, src, dst, Top(h, src)))]
        h2 == placement_new(Hollow(h1, T, src), dst, MovedCopy(h, T, src))
    IN destroy_at(h2, T, src)

\* vtable_for<T>.print_food_requirements: the tokens it writes
VT_print(h, T, p) ==
    IF IsLive(h, T, p) THEN T_print(T, Top(h, p).name) ELSE <<Garbage>>

-----------------------------------------------------------------------------
(* AnyAnimal's special members, as functions on the memory *)

\* AnyAnimal(T obj) binding one fixed table whatever T is
Construct_FixedTable(h, p, v) ==
    LET h1 == [h EXCEPT !.alive[p] = TRUE, !.vptr[p] = vtable_for("Lion")]
    IN placement_new(h1, p, Obj(v.type, v.name, FreshVid(h), v, FALSE))

\* AnyAnimal(T obj)
Construct(h, p, v) ==
    LET h1 == [h EXCEPT !.alive[p] = TRUE, !.vptr[p] = vtable_for(v.type)]
    IN placement_new(h1, p, Obj(v.type, v.name, FreshVid(h), v, FALSE))

\* ~AnyAnimal() that calls nothing
Destruct_Leak(h, p) ==
    [h EXCEPT !.alive[p] = FALSE, !.vptr[p] = NULL]

\* ~AnyAnimal() without the test of vptr
Destruct_NoCheck(h, p) ==
    [VT_destroy(h, h.vptr[p], p) EXCEPT !.alive[p] = FALSE, !.vptr[p] = NULL]

\* ~AnyAnimal(); the location's bytes are released afterwards
Destruct(h, p) ==
    LET h1 == IF h.vptr[p] # NULL THEN VT_destroy(h, h.vptr[p], p) ELSE h
    IN [h1 EXCEPT !.alive[p] = FALSE, !.vptr[p] = NULL]

\* the transfer that rebinds the two vptr members without relocating
Transfer_NoRelocate(h, this, other) ==
    IF h.vptr[other] # NULL
    THEN [h EXCEPT !.vptr[this] = h.vptr[other], !.vptr[other] = NULL]
    ELSE [h EXCEPT !.vptr[this] = NULL]

\* the transfer without this->vptr = other.vptr
Transfer_NoBind(h, this, other) ==
    IF h.vptr[other] # NULL
    THEN LET h1 == VT_move(h, h.vptr[other], other, this)
         IN [h1 EXCEPT !.vptr[other] = NULL]
    ELSE [h EXCEPT !.vptr[this] = NULL]

\* the transfer without other.vptr = nullptr
Transfer_KeepSource(h, this, other) ==
    IF h.vptr[other] # NULL
    THEN LET h1 == VT_move(h, h.vptr[other], other, this)
         IN [h1 EXCEPT !.vptr[this] = h.vptr[other]]
    ELSE [h EXCEPT !.vptr[this] = NULL]

\* the transfer shared by the move constructor and move assignment
Transfer(h, this, other) ==
    IF h.vptr[other] # NULL
    THEN LET h1 == VT_move(h, h.vptr[other], other, this)
         IN [h1 EXCEPT !.vptr[this] = h.vptr[other], !.vptr[other] = NULL]
    ELSE [h EXCEPT !.vptr[this] = NULL]

\* AnyAnimal(AnyAnimal&& other) without the test of other.vptr
MoveConstruct_NoCheck(h, this, other) ==
    LET h0 == [h EXCEPT !.alive[this] = TRUE, !.vptr[this] = NULL]
        h1 == VT_move(h0, h0.vptr[other], other, this)
    IN [h1 EXCEPT !.vptr[this] = h0.vptr[other], !.vptr[other] = NULL]

\* AnyAnimal(AnyAnimal&& other)
MoveConstruct(h, this, other) ==
    Transfer([h EXCEPT !.alive[this] = TRUE, !.vptr[this] = NULL],
             this, other)

\* operator=(AnyAnimal&& other) without the test for self-assignment
MoveAssign_NoSelfCheck(h, this, other) ==
    LET h1 == IF h.vptr[this] # NULL
              THEN VT_destroy(h, h.vptr[this], this)
              ELSE h
    IN IF h1.vptr[other] # NULL
       THEN LET h2 == VT_move(h1, h1.vptr[other], other, this)
            IN [h2 EXCEPT !.vptr[this] = h1.vptr[other], !.vptr[other] = NULL]
       ELSE [h1 EXCEPT !.vptr[this] = NULL]

\* operator=(AnyAnimal&& other) without destroying the current value
MoveAssign_NoDestroy(h, this, other) ==
    IF this = other THEN h
    ELSE IF h.vptr[other] # NULL
    THEN [VT_move(h, h.vptr[other], other, this)
             EXCEPT !.vptr[this] = h.vptr[other], !.vptr[other] = NULL]
    ELSE [h EXCEPT !.vptr[this] = NULL]

\* operator=(AnyAnimal&& other) destroying without the test of vptr
MoveAssign_AlwaysDestroy(h, this, other) ==
    IF this = other THEN h
    ELSE Transfer(VT_destroy(h, h.vptr[this], this), this, other)

\* operator=(AnyAnimal&& other) destroying through the source's table
MoveAssign_SourceTable(h, this, other) ==
    IF this = other THEN h
    ELSE LET h1 == IF h.vptr[this] # NULL /\ h.vptr[other] # NULL
                   THEN VT_destroy(h, h.vptr[other], this)
                   ELSE IF h.vptr[this] # NULL
                   THEN VT_destroy(h, h.vptr[this], this)
                   ELSE h
         IN Transfer(h1, this, other)

\* operator=(AnyAnimal&& other) relocating before it destroys the old value
MoveAssign_MoveFirst(h, this, other) ==
    IF this = other THEN h
    ELSE LET T == h.vptr[this]
             h1 == IF h.vptr[other] # NULL
                   THEN [VT_move(h, h.vptr[other], other, this)
                            EXCEPT !.vptr[this] = h.vptr[other],
                                   !.vptr[other] = NULL]
                   ELSE [h EXCEPT !.vptr[this] = NULL]
         IN IF T # NULL THEN VT_destroy(h1, T, this) ELSE h1

\* operator=(AnyAnimal&& other)
MoveAssign(h, this, other) ==
    IF this = other THEN h
    ELSE LET h1 == IF h.vptr[this] # NULL
                   THEN VT_destroy(h, h.vptr[this], this)
                   ELSE h
         IN Transfer(h1, this, other)

-----------------------------------------------------------------------------
(* The build *)

\* The translation unit either defines NDEBUG or not, and instantiates the
\* constructor template with some set of types.  A failed static_assert
\* means no program exists.
Builds(base) ==
    [ndebug : BOOLEAN,
     T : {base} \cup {base \cup {B} : B \in BadTypes}]

Compiles(b) == \A T \in b.T : StaticAssertOk(T)

Op(op, this, other) == [op |-> op, this |-> this, other |-> other]

Init ==
    /\ build \in Builds(ClientTypes)
    /\ status = IF Compiles(build) THEN "running" ELSE "ill-formed"
    /\ alive = [p \in Locs |-> FALSE]
    /\ vptr = [p \in Locs |-> NULL]
    /\ storage_ = [p \in Locs |-> <<>>]
    /\ out = <<>>
    /\ trace = <<>>
    /\ lastOp = Op("init", 0, 0)
    /\ animal_roster = <<>>
    /\ capacity = 0
    /\ iter = 1
    /\ input = <<>>

\* write a memory back to the variables
Commit(h) ==
    /\ alive' = h.alive
    /\ vptr' = h.vptr
    /\ storage_' = h.storage_
    /\ trace' = h.trace

-----------------------------------------------------------------------------
(* Container operations applied by arbitrary client code *)

\* AnyAnimal a(T{}) at a fresh location p
ConstructFromValue(p, v) ==
    /\ status = "running"
    /\ ~alive[p]
    /\ Commit(Construct(Heap, p, v))
    /\ lastOp' = Op("construct", p, 0)
    /\ UNCHANGED <<build, status, out, main_vars>>

\* the AnyAnimal at p goes out of scope
DestroyContainer(p) ==
    /\ status = "running"
    /\ alive[p]
    /\ Commit(Destruct(Heap, p))
    /\ lastOp' = Op("destruct", p, 0)
    /\ UNCHANGED <<build, status, out, main_vars>>

\* AnyAnimal b(std::move(a)) at a fresh location this
MoveConstructFrom(this, other) ==
    /\ status = "running"
    /\ ~alive[this]
    /\ alive[other]
    /\ Commit(MoveConstruct(Heap, this, other))
    /\ lastOp' = Op("move_construct", this, other)
    /\ UNCHANGED <<build, status, out, main_vars>>

\* b = std::move(a)
MoveAssignFrom(this, other) ==
    /\ status = "running"
    /\ alive[this]
    /\ alive[other]
    /\ Commit(MoveAssign(Heap, this, other))
    /\ lastOp' = Op("move_assign", this, other)
    /\ UNCHANGED <<build, status, out, main_vars>>

\* the number of print_food_requirements calls that wrote the tokens w: each
\* wrote " needs: " once, or nothing but Garbage
PrintCalls(w) ==
    Cardinality({i \in DOMAIN w : w[i] \in {" needs: ", Garbage}})

\* the body of print_food_requirements without the assert
PrintCall_NoAssert(p, rest) ==
    \/ /\ vptr[p] # NULL
       /\ out' = out \o VT_print(Heap, vptr[p], p) \o rest
       /\ trace' = <<Ev("print", vptr[p], p, 0, Top(Heap, p))>>
       /\ UNCHANGED status
    \/ /\ vptr[p] = NULL
       /\ status' = "crashed"
       /\ trace' = <<>>
       /\ UNCHANGED out
    \/ /\ vptr[p] = NULL
       /\ \E T \in build.T :
             /\ out' = out \o VT_print(Heap, T, p) \o rest
             /\ trace' = <<Ev("print", T, p, 0, Top(Heap, p))>>
             /\ UNCHANGED status

\* The body of AnyAnimal::print_food_requirements on the object at p,
\* followed by writing the tokens in rest.  With NDEBUG the assert is
\* compiled out and a null vptr is dereferenced: the call either faults or
\* runs some table's function on the empty buffer.
PrintCall(p, rest) ==
    IF vptr[p] # NULL
    THEN /\ out' = out \o VT_print(Heap, vptr[p], p) \o rest
         /\ trace' = <<Ev("print", vptr[p], p, 0, Top(Heap, p))>>
         /\ UNCHANGED status
    ELSE IF ~build.ndebug
    THEN /\ status' = "aborted"
         /\ trace' = <<>>
         /\ UNCHANGED out
    ELSE \/ /\ status' = "crashed"
            /\ trace' = <<>>
            /\ UNCHANGED out
         \/ \E T \in build.T :
               /\ out' = out \o VT_print(Heap, T, p) \o rest
               /\ trace' = <<Ev("print", T, p, 0, Top(Heap, p))>>
               /\ UNCHANGED status

\* a.print_food_requirements() whose table function ends the life of the
\* object it prints
print_food_requirements_Consuming(p) ==
    /\ status = "running"
    /\ alive[p]
    /\ PrintCalls(out) < MaxOut
    /\ PrintCall(p, <<>>)
    /\ lastOp' = Op("print", p, 0)
    /\ storage_' = [storage_ EXCEPT ![p] = <<>>]
    /\ UNCHANGED <<build, alive, vptr, main_vars>>

\* a.print_food_requirements()
print_food_requirements(p) ==
    /\ status = "running"
    /\ alive[p]
    /\ PrintCalls(out) < MaxOut
    /\ PrintCall(p, <<>>)
    /\ lastOp' = Op("print", p, 0)
    /\ UNCHANGED <<build, alive, vptr, storage_, main_vars>>

Next ==
    \/ \E p \in Slots, v \in Values(build.T) : ConstructFromValue(p, v)
    \/ \E p \in Slots : DestroyContainer(p)
    \/ \E this, other \in Slots : MoveConstructFrom(this, other)
    \/ \E this, other \in Slots : MoveAssignFrom(this, other)
    \/ \E p \in Slots : print_food_requirements(p)

Spec == Init /\ [][Next]_vars

-----------------------------------------------------------------------------
(* main(): the roster *)

RECURSIVE Pick(_, _)
\* the k lowest locations of S, in order
Pick(S, k) ==
    IF k = 0 \/ S = {} THEN <<>>
    ELSE LET m == CHOOSE x \in S : \A y \in S : x <= y
         IN <<m>> \o Pick(S \ {m}, k - 1)

\* the locations of a freshly allocated block for k elements
NewBlock(h, k) == Pick({p \in RosterSlots : ~h.alive[p]}, k)

RECURSIVE MoveAll(_, _, _, _)
\* move-construct the elements at olds[i..] into news[i..]
MoveAll(h, olds, news, i) ==
    IF i > Len(olds) THEN h
    ELSE MoveAll(MoveConstruct(h, news[i], olds[i]), olds, news, i + 1)

RECURSIVE DestroyAll(_, _, _)
\* destroy the elements at ps[i..]
DestroyAll(h, ps, i) ==
    IF i > Len(ps) THEN h
    ELSE DestroyAll(Destruct(h, ps[i]), ps, i + 1)

\* animal_roster.emplace_back(T{}) when size < capacity
EmplaceInPlace(h, v) ==
    LET blk == NewBlock(h, 1)
    IN [h |-> Construct(h, blk[1], v), roster |-> Append(animal_roster, blk[1])]

\* animal_roster.emplace_back(T{}) when size = capacity: the new element is
\* constructed in a new block, the old elements are move-constructed into
\* it (the move constructor is noexcept) and then destroyed
EmplaceRealloc(h, v) ==
    LET n == Len(animal_roster)
        blk == NewBlock(h, n + 1)
        h1 == Construct(h, blk[n + 1], v)
        h2 == MoveAll(h1, animal_roster, blk, 1)
    IN [h |-> DestroyAll(h2, animal_roster, 1), roster |-> blk]

\* the capacities a reallocation of a full vector of n elements may choose
Growth(n) == (n + 1) .. (IF n = 0 THEN 1 ELSE 2 * n)

\* main, lines 188-190: append the next value
EmplaceBack ==
    /\ status = "running"
    /\ Len(animal_roster) < Len(input)
    /\ LET v == input[Len(animal_roster) + 1]
       IN IF Len(animal_roster) < capacity
          THEN /\ Commit(EmplaceInPlace(Heap, v).h)
               /\ animal_roster' = EmplaceInPlace(Heap, v).roster
               /\ UNCHANGED capacity
          ELSE /\ Commit(EmplaceRealloc(Heap, v).h)
               /\ animal_roster' = EmplaceRealloc(Heap, v).roster
               /\ capacity' \in Growth(Len(animal_roster))
    /\ lastOp' = Op("emplace_back", animal_roster'[Len(animal_roster')], 0)
    /\ UNCHANGED <<build, status, out, iter, input>>

\* main, lines 192-196: one iteration of the range-for
LoopBody ==
    /\ status = "running"
    /\ Len(animal_roster) = Len(input)
    /\ iter <= Len(animal_roster)
    /\ PrintCall(animal_roster[iter], <<"\n">>)
    /\ iter' = IF status' = "running" THEN iter + 1 ELSE iter
    /\ lastOp' = Op("print", animal_roster[iter], 0)
    /\ UNCHANGED <<build, alive, vptr, storage_, animal_roster, capacity, input>>

\* main, line 198: return 0 destroys animal_roster and its elements
Return ==
    /\ status = "running"
    /\ Len(animal_roster) = Len(input)
    /\ iter > Len(animal_roster)
    /\ Commit(DestroyAll(Heap, animal_roster, 1))
    /\ animal_roster' = <<>>
    /\ capacity' = 0
    /\ status' = "returned"
    /\ lastOp' = Op("return", 0, 0)
    /\ UNCHANGED <<build, out, iter, input>>

RECURSIVE SeqsUpTo(_, _)
\* the sequences over S of length at most n
SeqsUpTo(S, n) ==
    IF n = 0 THEN {<<>>}
    ELSE LET shorter == SeqsUpTo(S, n - 1)
         IN shorter \cup {Append(q, x) : q \in shorter, x \in S}

\* main appends Lion, Zebra, Elephant; any sequence of animals is admitted
InitRoster ==
    /\ build \in [ndebug : BOOLEAN, T : {AnimalTypes}]
    /\ status = "running"
    /\ alive = [p \in Locs |-> FALSE]
    /\ vptr = [p \in Locs |-> NULL]
    /\ storage_ = [p \in Locs |-> <<>>]
    /\ out = <<>>
    /\ trace = <<>>
    /\ lastOp = Op("init", 0, 0)
    /\ animal_roster = <<>>
    /\ capacity = 0
    /\ iter = 1
    /\ input \in SeqsUpTo(Values(AnimalTypes), MaxRoster)

NextRoster ==
    \/ EmplaceBack
    \/ LoopBody
    \/ Return

SpecRoster == InitRoster /\ [][NextRoster]_vars

-----------------------------------------------------------------------------
(* Properties *)

\* the container at p holds nothing / holds a T
Empty(p) == alive[p] /\ vptr[p] = NULL
Holding(p, T) == alive[p] /\ vptr[p] = vtable_for(T)

\* what print_food_requirements on the container at p writes
BehaviourIn(h, p) == VT_print(h, h.vptr[p], p)
Behaviour(p) == BehaviourIn(Heap, p)

IsMove(op) == op.op \in {"move_construct", "move_assign"}

\* the events of kind k in a trace
Events(tr, k) == {i \in DOMAIN tr : tr[i].k = k}

\* C1: a container constructed from a value v of type T is bound to T's table
\* and stores an object equal to v, and print_food_requirements on it (before
\* any move) writes exactly what v.print_food_requirements() writes.
C1_ConstructThenInvoke ==
    [][LET p == lastOp'.this
       IN /\ lastOp'.op = "construct" =>
                \E T \in Types :
                   /\ vptr'[p] = vtable_for(T)
                   /\ Len(storage_'[p]) = 1
                   /\ storage_'[p][1].from.type = T
                   /\ storage_'[p][1].type = T
                   /\ storage_'[p][1].name = storage_'[p][1].from.name
          /\ (/\ lastOp'.op = "print"
              /\ storage_[p] # <<>>
              /\ ~storage_[p][1].moved) =>
                /\ out' = out \o Direct(storage_[p][1].from)
                /\ status' = "running"]_vars

C1_Witness ==
    /\ lastOp.op = "print"
    /\ storage_[lastOp.this] # <<>>
    /\ ~storage_[lastOp.this][1].moved
    /\ out = Direct(Value("Zebra"))

\* C2: a move construction or move assignment from a non-empty source into a
\* distinct destination leaves the source Empty and the destination holding
\* the source's former type, with the behaviour of the original value; a move
\* from an Empty source constructs nothing.
C2_MoveTransfers ==
    [][LET this == lastOp'.this
           other == lastOp'.other
       IN (IsMove(lastOp') /\ this # other) =>
            IF vptr[other] # NULL
            THEN /\ vptr'[other] = NULL
                 /\ storage_'[other] = <<>>
                 /\ vptr'[this] = vptr[other]
                 /\ Len(storage_'[this]) = 1
                 /\ storage_'[this][1].from = storage_[other][1].from
                 /\ BehaviourIn(HeapOf(alive', vptr', storage_'), this) = Behaviour(other)
                 /\ BehaviourIn(HeapOf(alive', vptr', storage_'), this) = Direct(storage_[other][1].from)
            ELSE /\ vptr'[this] = NULL
                 /\ vptr'[other] = NULL
                 /\ storage_'[this] = <<>>
                 /\ Events(trace', "new") = {}
                 /\ Events(trace', "move") = {}]_vars

C2_Witness ==
    /\ lastOp.op = "move_assign"
    /\ lastOp.this # lastOp.other
    /\ Empty(lastOp.other)
    /\ Holding(lastOp.this, "Lion")
    /\ Events(trace, "move") # {}
    /\ Behaviour(lastOp.this) = Direct(Value("Lion"))

\* C3: move-assigning a container to itself calls no table function and
\* changes nothing: vptr, the held value and the behaviour stay as they were.
C3_SelfAssignNoOp ==
    [][(lastOp'.op = "move_assign" /\ lastOp'.this = lastOp'.other) =>
          /\ trace' = <<>>
          /\ vptr' = vptr
          /\ storage_' = storage_
          /\ alive' = alive
          /\ out' = out
          /\ status' = status
          /\ BehaviourIn(HeapOf(alive', vptr', storage_'), lastOp'.this) =
                BehaviourIn(Heap, lastOp'.this)]_vars

C3_Witness ==
    /\ lastOp.op = "move_assign"
    /\ lastOp.this = lastOp.other
    /\ Holding(lastOp.this, "Zebra")
    /\ \E q \in Slots \ {lastOp.this} : Empty(q)

\* C4: destroying a container that holds a T runs the destructor of the held
\* object exactly once, destroying an Empty container runs none, and no
\* operation ever runs a destructor on a buffer without a live object.
C4_DestroyOnce ==
    [][/\ lastOp'.op = "destruct" =>
             LET p == lastOp'.this
             IN IF vptr[p] # NULL
                THEN /\ Cardinality(Events(trace', "dtor")) = 1
                     /\ \A i \in Events(trace', "dtor") :
                           /\ trace'[i].p = p
                           /\ trace'[i].vid = storage_[p][1].vid
                           /\ trace'[i].dyn = storage_[p][1].type
                     /\ storage_'[p] = <<>>
                ELSE /\ trace' = <<>>
                     /\ storage_' = storage_
       /\ \A i \in Events(trace', "dtor") : trace'[i].vid # 0]_vars

C4_Witness ==
    /\ lastOp.op = "destruct"
    /\ Len(trace) = 2
    /\ trace[1].k = "destroy" /\ trace[2].k = "dtor"
    /\ trace[2].dyn = "Lion" /\ trace[2].vid # 0
    /\ \E q \in Slots \ {lastOp.this} : Empty(q)

\* C5 as claimed: print_food_requirements on an Empty container is always
\* stopped by the check: no table function runs, nothing is written, and the
\* program is aborted.
C5_EmptyInvokeAlwaysAborts ==
    [][(lastOp'.op = "print" /\ vptr[lastOp'.this] = NULL) =>
          /\ status' = "aborted"
          /\ trace' = <<>>
          /\ out' = out]_vars

\* C5, amended: in a build without NDEBUG, print_food_requirements on an Empty
\* container runs no table function, writes nothing and aborts the program,
\* after which nothing else happens.
C5_EmptyInvokeAbortsInDebug ==
    [][/\ (lastOp'.op = "print" /\ vptr[lastOp'.this] = NULL /\ ~build.ndebug) =>
             /\ status' = "aborted"
             /\ trace' = <<>>
             /\ out' = out
       /\ status = "aborted" => vars' = vars]_vars

C5_Witness ==
    /\ status = "aborted"
    /\ lastOp.op = "print"
    /\ Empty(lastOp.this)
    /\ ~build.ndebug

RECURSIVE Expected(_, _)
\* what invoking the capability on the first n given values writes, each
\* followed by main's std::endl
Expected(vs, n) ==
    IF n = 0 THEN <<>> ELSE Expected(vs, n - 1) \o Direct(vs[n]) \o <<"\n">>

LionZebraElephant == <<Value("Lion"), Value("Zebra"), Value("Elephant")>>

\* C6: the roster, after every emplace_back (reallocations included), holds in
\* order containers that behave as the values appended so far, and the loop
\* writes the lines of the given values in the given order; for Lion, Zebra,
\* Elephant these are the Lion, Zebra and Elephant lines.
C6_RosterOrder ==
    /\ status \in {"running", "returned"}
    /\ status = "running" =>
          /\ Len(animal_roster) <= Len(input)
          /\ \A i \in DOMAIN animal_roster :
                /\ Holding(animal_roster[i], input[i].type)
                /\ Behaviour(animal_roster[i]) = Direct(input[i])
          /\ \A i, j \in DOMAIN animal_roster :
                i # j => animal_roster[i] # animal_roster[j]
          /\ out = Expected(input, iter - 1)
    /\ status = "returned" => out = Expected(input, Len(input))
    /\ (status = "returned" /\ input = LionZebraElephant) =>
          out = <<"Lion", " needs: ", "meat (11kg/day)", "\n",
                  "Zebra", " needs: ", "hay, grass (15kg/day)", "\n",
                  "Elephant", " needs: ",
                  "hay, fruit, vegetables (300kg/day)", "\n">>

C6_Witness ==
    /\ status = "returned"
    /\ input = LionZebraElephant
    /\ Len(out) = 12
    /\ out[1] = "Lion" /\ out[5] = "Zebra" /\ out[9] = "Elephant"

\* C7: at every operation boundary each live container has a non-null vptr
\* exactly when one live object occupies its storage, that object is of the
\* type whose table vptr names, and no buffer ever holds two objects; a
\* location without a container holds no object.
C7_StorageInvariant ==
    \A p \in Locs :
       /\ Len(storage_[p]) <= 1
       /\ alive[p] =>
             /\ vptr[p] # NULL <=> Len(storage_[p]) = 1
             /\ vptr[p] # NULL => vptr[p] = vtable_for(storage_[p][1].type)
             /\ vptr[p] = NULL => storage_[p] = <<>>
       /\ ~alive[p] => storage_[p] = <<>>

C7_Witness ==
    /\ lastOp.op = "move_assign"
    /\ \E p, q \in Slots :
          /\ Holding(p, "Zebra") /\ Len(storage_[p]) = 1
          /\ Empty(q) /\ storage_[q] = <<>>
    /\ Events(trace, "destroy") # {}
    /\ Events(trace, "move") # {}

\* C8: a build that instantiates the constructor with a type larger than the
\* buffer or more strictly aligned is ill-formed and has no run-time state,
\* and no container ever holds an object of such a type.
C8_OversizeRejected ==
    /\ (\E T \in build.T : SizeOf(T) > BUFFER_SIZE \/ AlignOf(T) > ALIGNMENT)
          => /\ status = "ill-formed"
             /\ lastOp.op = "init"
             /\ \A p \in Locs : ~alive[p] /\ storage_[p] = <<>>
             /\ out = <<>>
    /\ \A p \in Locs :
          /\ vptr[p] # NULL =>
                SizeOf(vptr[p]) <= BUFFER_SIZE /\ AlignOf(vptr[p]) <= ALIGNMENT
          /\ \A i \in DOMAIN storage_[p] :
                /\ SizeOf(storage_[p][i].type) <= BUFFER_SIZE
                /\ AlignOf(storage_[p][i].type) <= ALIGNMENT

C8_Witness ==
    /\ status = "ill-formed"
    /\ "Whale" \in build.T
    /\ SizeOf("Whale") = BUFFER_SIZE + 1

\* the places <<p, i>> at which an object lives
Places == {pi \in Locs \X (1 .. 2) : pi[2] <= Len(storage_[pi[1]])}

\* C9: no value is held twice: the objects living in buffers carry pairwise
\* different values, no buffer holds more than one, and there are never more
\* live values than containers.
C9_SingleOwner ==
    /\ \A a, b \in Places :
          a # b => storage_[a[1]][a[2]].vid # storage_[b[1]][b[2]].vid
    /\ \A p \in Locs : Len(storage_[p]) <= 1
    /\ Cardinality(LiveVids(Heap)) <= Cardinality({p \in Locs : alive[p]})

C9_Witness ==
    /\ \E p, q \in Slots :
          /\ p # q
          /\ Holding(p, "Lion") /\ Holding(q, "Lion")
          /\ storage_[p][1].vid # storage_[q][1].vid
          /\ storage_[p][1].moved
    /\ IsMove(lastOp)

\* C10: a move assignment to a distinct destination first destroys the
\* destination's value, once and through the destination's table, before
\* anything is constructed in its buffer, and then transfers: from a holding
\* source the destination ends holding the source's type and the source
\* Empty, from an Empty source both end Empty.
C10_AssignDestroysFirst ==
    [][LET this == lastOp'.this
           other == lastOp'.other
           tr == trace'
       IN (lastOp'.op = "move_assign" /\ this # other) =>
            /\ IF vptr[this] # NULL
               THEN /\ Len(tr) >= 2
                    /\ tr[1] = Ev("destroy", vptr[this], this, 0, storage_[this][1])
                    /\ tr[2] = Ev("dtor", vptr[this], this, 0, storage_[this][1])
                    /\ Events(tr, "destroy") = {1}
                    /\ {i \in Events(tr, "dtor") : tr[i].p = this} = {2}
                    /\ \A i \in Events(tr, "new") \cup Events(tr, "move") : i > 2
               ELSE Events(tr, "destroy") = {} /\
                    {i \in Events(tr, "dtor") : tr[i].p = this} = {}
            /\ IF vptr[other] # NULL
               THEN /\ vptr'[this] = vptr[other]
                    /\ vptr'[other] = NULL
                    /\ Len(storage_'[this]) = 1
                    /\ storage_'[this][1].vid = storage_[other][1].vid
                    /\ storage_'[this][1].type = storage_[other][1].type
                    /\ storage_'[other] = <<>>
                    /\ Cardinality(Events(tr, "move")) = 1
               ELSE /\ vptr'[this] = NULL
                    /\ vptr'[other] = NULL
                    /\ storage_'[this] = <<>>
                    /\ storage_'[other] = <<>>
                    /\ Events(tr, "move") = {}]_vars

C10_Witness ==
    /\ lastOp.op = "move_assign"
    /\ lastOp.this # lastOp.other
    /\ Len(trace) = 5
    /\ trace[1].k = "destroy" /\ trace[1].T = "Zebra"
    /\ trace[3].k = "move" /\ trace[3].T = "Lion"
    /\ Holding(lastOp.this, "Lion")
    /\ Empty(lastOp.other)

\* C11: print_food_requirements on a non-empty container only dispatches: it
\* makes one call, through the container's table, writes what the held value
\* writes, constructs, destroys and relocates nothing, leaves every
\* container as it was, and would write the same again.
C11_InvokeIsPure ==
    [][LET p == lastOp'.this
       IN (lastOp'.op = "print" /\ vptr[p] # NULL) =>
            /\ vptr' = vptr
            /\ storage_' = storage_
            /\ alive' = alive
            /\ status' = status
            /\ trace' = <<Ev("print", vptr[p], p, 0, storage_[p][1])>>
            /\ out' = out \o BehaviourIn(Heap, p)
            /\ BehaviourIn(HeapOf(alive', vptr', storage_'), p) =
                  BehaviourIn(Heap, p)
            /\ BehaviourIn(Heap, p) # <<Garbage>>]_vars

C11_Witness ==
    /\ lastOp.op = "print"
    /\ Holding(lastOp.this, "Lion")
    /\ storage_[lastOp.this][1].moved
    /\ trace = <<Ev("print", "Lion", lastOp.this, 0, storage_[lastOp.this][1])>>
    /\ out = Direct(Value("Lion"))
    /\ \E q \in Slots \ {lastOp.this} : Holding(q, "Zebra")

\* the container at p holds a value before the step and not after it
Leaves(p) ==
    /\ alive[p] /\ vptr[p] # NULL /\ storage_[p] # <<>>
    /\ \/ ~alive'[p]
       \/ vptr'[p] = NULL
       \/ storage_'[p] = <<>>
       \/ storage_'[p][1].vid # storage_[p][1].vid

\* C12: a container constructed from a value holds that value's type right
\* away; a container comes into being Empty only by move construction from
\* an Empty source, and a live container turns Empty only as the source of a
\* move or as the target of a move assignment from an Empty source; a held
\* value leaves its container only by a destructor run on it, in a destroy
\* or as the source of a relocation.
C12_EmptyOnlyByMove ==
    [][/\ lastOp'.op = "construct" =>
             /\ alive'[lastOp'.this]
             /\ vptr'[lastOp'.this] # NULL
             /\ Len(storage_'[lastOp'.this]) = 1
             /\ vptr'[lastOp'.this] =
                   vtable_for(storage_'[lastOp'.this][1].type)
       /\ \A p \in Locs :
             /\ (~alive[p] /\ alive'[p] /\ vptr'[p] = NULL) =>
                   /\ lastOp' = Op("move_construct", p, lastOp'.other)
                   /\ vptr[lastOp'.other] = NULL
             /\ (alive[p] /\ vptr[p] # NULL /\ alive'[p] /\ vptr'[p] = NULL) =>
                   /\ IsMove(lastOp')
                   /\ lastOp'.this # lastOp'.other
                   /\ \/ p = lastOp'.other
                      \/ /\ p = lastOp'.this
                         /\ lastOp'.op = "move_assign"
                         /\ vptr[lastOp'.other] = NULL
             /\ Leaves(p) =>
                   /\ \E i \in Events(trace', "dtor") :
                         /\ trace'[i].p = p
                         /\ trace'[i].vid = storage_[p][1].vid
                   /\ \/ \E i \in Events(trace', "destroy") : trace'[i].p = p
                      \/ \E i \in Events(trace', "move") : trace'[i].p = p]_vars

C12_Witness ==
    /\ lastOp.op = "move_assign"
    /\ lastOp.this # lastOp.other
    /\ Empty(lastOp.this)
    /\ Empty(lastOp.other)
    /\ Len(trace) = 2
    /\ trace[1].k = "destroy" /\ trace[1].p = lastOp.this
    /\ trace[2].k = "dtor" /\ trace[2].dyn = "Zebra"

\* C13: every relocate call of type T from src to dst move-constructs one T
\* at dst and then destroys the T at src, once each and in that order;
\* afterwards dst holds a live T equal to what src held and src holds no
\* object.
C13_RelocateOrder ==
    [][\A i \in Events(trace', "move") :
          LET src == trace'[i].p
              dst == trace'[i].q
              T == trace'[i].T
              o == storage_[src][1]
          IN /\ Len(storage_[src]) = 1
             /\ o.type = T
             /\ Len(trace') >= i + 2
             /\ trace'[i + 1] = Ev("new", T, dst, 0, o)
             /\ trace'[i + 2] = Ev("dtor", T, src, 0, o)
             /\ {j \in Events(trace', "new") : j > i} = {i + 1}
             /\ {j \in Events(trace', "dtor") : j > i} = {i + 2}
             /\ Len(storage_'[dst]) = 1
             /\ storage_'[dst][1].type = T
             /\ storage_'[dst][1].name = o.name
             /\ storage_'[dst][1].vid = o.vid
             /\ storage_'[dst][1].moved
             /\ storage_'[src] = <<>>]_vars

C13_Witness ==
    /\ lastOp.op = "move_construct"
    /\ Len(trace) = 3
    /\ trace[1].k = "move" /\ trace[1].T = "Zebra"
    /\ trace[2].k = "new" /\ trace[2].p = lastOp.this
    /\ trace[3].k = "dtor" /\ trace[3].p = lastOp.other
    /\ storage_[lastOp.this] # <<>>
    /\ storage_[lastOp.this][1].name = "Zebra"
    /\ storage_[lastOp.other] = <<>>

\* C14: move construction from an Empty source creates an Empty container,
\* leaves the source Empty and calls no table function; no object is
\* created or destroyed, however often it is repeated.
C14_MoveFromEmpty ==
    [][(lastOp'.op = "move_construct" /\ vptr[lastOp'.other] = NULL) =>
          /\ trace' = <<>>
          /\ alive' = [alive EXCEPT ![lastOp'.this] = TRUE]
          /\ vptr' = vptr
          /\ vptr'[lastOp'.this] = NULL
          /\ vptr'[lastOp'.other] = NULL
          /\ storage_' = storage_
          /\ storage_'[lastOp'.this] = <<>>
          /\ out' = out
          /\ status' = status]_vars

C14_Witness ==
    /\ lastOp.op = "move_construct"
    /\ trace = <<>>
    /\ Empty(lastOp.this)
    /\ Empty(lastOp.other)
    /\ \A p \in Locs : storage_[p] = <<>>

\* C15: move-assigning a holding source to an Empty container calls no
\* destroy and leaves the container holding the source's type with the
\* source value's behaviour; print_food_requirements on a holding container
\* writes the held value's output and the program runs on, while on an Empty
\* container it never does: the program stops, or what is written is not the
\* output of any value.
C15_ReassignRevives ==
    [][LET this == lastOp'.this
           other == lastOp'.other
       IN /\ (/\ lastOp'.op = "move_assign"
              /\ this # other
              /\ vptr[this] = NULL
              /\ vptr[other] # NULL) =>
                /\ Events(trace', "destroy") = {}
                /\ {i \in Events(trace', "dtor") : trace'[i].p = this} = {}
                /\ alive'[this]
                /\ vptr'[this] = vptr[other]
                /\ BehaviourIn(HeapOf(alive', vptr', storage_'), this) =
                      Direct(storage_[other][1].from)
          /\ (lastOp'.op = "print" /\ vptr[this] # NULL) =>
                /\ status' = "running"
                /\ out' = out \o Direct(storage_[this][1].from)
          /\ (lastOp'.op = "print" /\ vptr[this] = NULL) =>
                \/ status' \in {"aborted", "crashed"} /\ out' = out
                \/ out' = out \o <<Garbage>>]_vars

C15_Witness ==
    /\ lastOp.op = "move_assign"
    /\ lastOp.this # lastOp.other
    /\ Holding(lastOp.this, "Zebra")
    /\ Empty(lastOp.other)
    /\ Len(trace) = 3
    /\ trace[1].k = "move"
    /\ Behaviour(lastOp.this) = Direct(Value("Zebra"))

\* the table calls of the last operation
Calls == Events(trace, "destroy") \cup Events(trace, "move")
            \cup Events(trace, "print")

\* the call trace[i] went through the table of the type of the object that
\* was live in the buffer it was given
OwnTable(i) == trace[i].dyn # NoType /\ trace[i].T = trace[i].dyn

\* in a move assignment to a distinct container the destroy calls are on the
\* destination's buffer and the relocate calls are from the source's buffer
\* into the destination's
AssignTargets ==
    (lastOp.op = "move_assign" /\ lastOp.this # lastOp.other) =>
       /\ \A i \in Events(trace, "destroy") : trace[i].p = lastOp.this
       /\ \A i \in Events(trace, "move") :
             trace[i].p = lastOp.other /\ trace[i].q = lastOp.this

\* C16 as claimed: every destroy, relocate and invoke call goes through the
\* table of the type of the object live in the buffer passed to it, and no
\* destructor runs on anything else.
C16_EveryCallOwnTable ==
    /\ \A i \in Calls \cup Events(trace, "dtor") : OwnTable(i)
    /\ AssignTargets

\* C16, amended: the same, except for print_food_requirements on an Empty
\* container in a build with NDEBUG, whose behaviour is undefined.
C16_CallsOwnTableUnlessUB ==
    /\ \A i \in Calls \cup Events(trace, "dtor") :
          \/ OwnTable(i)
          \/ /\ trace[i].k = "print"
             /\ build.ndebug
             /\ vptr[trace[i].p] = NULL
    /\ AssignTargets

C16_Witness ==
    /\ lastOp.op = "move_assign"
    /\ lastOp.this # lastOp.other
    /\ Len(trace) = 5
    /\ trace[1] = Ev("destroy", "Lion", lastOp.this, 0,
                     Obj("Lion", "Lion", trace[1].vid, Value("Lion"), FALSE))
    /\ trace[3].k = "move"
    /\ trace[3].T = "Zebra" /\ trace[3].dyn = "Zebra"
    /\ trace[3].p = lastOp.other /\ trace[3].q = lastOp.this

\* number of objects living in buffers, in a given storage_
RECURSIVE SumLen(_, _)
SumLen(st, n) == IF n = 0 THEN 0 ELSE Len(st[n]) + SumLen(st, n - 1)

NLive(st) == SumLen(st, Cardinality(Locs))

\* number of live containers with a non-null vptr
NHolding(a, v) == Cardinality({p \in Locs : a[p] /\ v[p] # NULL})

\* C17: at every operation boundary there are as many live objects in
\* buffers as live containers with a non-null vptr; every destructor run of
\* the last operation ended the life of a live object, each a different one
\* (an object leaves a buffer only so, and enters one only by a
\* construction); so when no container is left, every object constructed in
\* a buffer has been destroyed, once.
C17_Conservation ==
    /\ NLive(storage_) = NHolding(alive, vptr)
    /\ \A i \in Events(trace, "dtor") :
          /\ trace[i].vid # 0
          /\ trace[i].dyn # NoType
          /\ \A j \in Events(trace, "dtor") :
                j # i => <<trace[j].p, trace[j].vid>> #
                            <<trace[i].p, trace[i].vid>>
    /\ Cardinality(Events(trace, "new")) <=
          Cardinality(Events(trace, "dtor")) + 1
    /\ (\A p \in Locs : ~alive[p]) => NLive(storage_) = 0

C17_Witness ==
    /\ lastOp.op = "destruct"
    /\ \A p \in Locs : ~alive[p] /\ storage_[p] = <<>>
    /\ Len(trace) = 2
    /\ trace[2].k = "dtor" /\ trace[2].dyn = "Zebra" /\ trace[2].vid # 0

=============================================================================
